---------------------------- MODULE Spec2Model ----------------------------
(***************************************************************************)
(* Nearest-neighbour duplex thermodynamics (calculate_duplex_thermo-        *)
(* dynamics.ipynb).                                                        *)
(*                                                                         *)
(* Representation.                                                         *)
(*   - A Python str is a sequence of one-character strings; a dictionary   *)
(*     key is the TLA+ string obtained by joining the characters (Str).    *)
(*   - A table (dict) is a function from key strings to <<dH, dS>> pairs.  *)
(*   - An optional argument is a record [some, v]: some = FALSE is None.   *)
(*   - Energies are fixed point: dH and dS are held in tenths (the tables  *)
(*     are given to one decimal), the temperature in whole kelvin, and dG  *)
(*     in units of 1/10000 kcal/mol, so that                               *)
(*        dG = dH - T * (dS / 1000)   reads   dG = 1000 * dH - T * dS      *)
(*     with no rounding.                                                   *)
(*   - A raised exception is an outcome [ok |-> FALSE, err, key].          *)
(***************************************************************************)
EXTENDS Integers, Sequences, FiniteSets, TLC

VARIABLES args, pc, seq, c_seq, delta, ret

vars == <<args, pc, seq, c_seq, delta, ret>>

(***************************************************************************)
(* Bounds of the model                                                     *)
(***************************************************************************)
\* longest strand of the alignment specification
MaxShiftLen == 3
\* longest strand of the engine specifications
MaxLen == 3
\* longest strand of the all-modes specification
MaxLenAll == 3
\* longest strand of the dangling-end specification
MaxDangleLen == 4
\* longest strand of the letter-case and RNA-letter specifications
MaxCaseLen == 2

(***************************************************************************)
(* Strings                                                                 *)
(***************************************************************************)
Bases == {"A", "C", "G", "T"}

RECURSIVE Str(_)
Str(s) == IF s = <<>> THEN "" ELSE Head(s) \o Str(Tail(s))

Min2(a, b) == IF a <= b THEN a ELSE b

Max2(a, b) == IF a >= b THEN a ELSE b

MinOf(S) == CHOOSE x \in S : \A y \in S : x <= y

\* s[a:b] for 0 <= a, with Python's clamping of both ends
Slice(s, a, b) == SubSeq(s, Min2(a, Len(s)) + 1, Min2(b, Len(s)))

\* s[-2:]
Last2(s) == Slice(s, Max2(Len(s) - 2, 0), Len(s))

\* s[::-1]
Reverse(s) == [i \in 1..Len(s) |-> s[Len(s) + 1 - i]]

UpperChar(ch) ==
    CASE ch = "a" -> "A"
      [] ch = "c" -> "C"
      [] ch = "g" -> "G"
      [] ch = "t" -> "T"
      [] ch = "u" -> "U"
      [] OTHER -> ch

\* str.upper()
Upper(s) == [i \in 1..Len(s) |-> UpperChar(s[i])]

ComplementChar(ch) ==
    CASE ch = "A" -> "T"
      [] ch = "T" -> "A"
      [] ch = "C" -> "G"
      [] ch = "G" -> "C"
      [] ch = "U" -> "A"
      [] ch = "a" -> "t"
      [] ch = "t" -> "a"
      [] ch = "c" -> "g"
      [] ch = "g" -> "c"
      [] ch = "u" -> "a"
      [] OTHER -> ch

\* str(Seq(s).complement()): position-wise, no reversal
Complement(s) == [i \in 1..Len(s) |-> ComplementChar(s[i])]

\* s.count(ch) for a one-character ch
Count(s, ch) == Cardinality({i \in 1..Len(s) : s[i] = ch})

\* "." * n
Dots(n) == [i \in 1..n |-> "."]

(***************************************************************************)
(* Optional values, outcomes                                               *)
(***************************************************************************)
None == [some |-> FALSE, v |-> <<>>]

Some(x) == [some |-> TRUE, v |-> x]

\* Python truthiness of an optional str or dict: None, "" and {} are falsy
Truthy(o) == o.some /\ DOMAIN o.v # {}

Ok(x) == [ok |-> TRUE, err |-> "", key |-> "", val |-> x]

Raise(e, k) == [ok |-> FALSE, err |-> e, key |-> k, val |-> <<>>]

NoRet == Raise("", "")

ErrNoTable == "Error: Nearest-neighbor table (nn_table) is required."

ErrNoCSeq == "Complementary sequence (c_seq) is required."

ErrInvalid == "Invalid calculation type or missing required table."

ErrNoData == "No data found for"

ErrMissing == "Missing data for nearest neighbors"

ErrNoAlign == "No alignment found between seq and c_seq."

ErrIndex == "IndexError: string index out of range"

\* dict.get(k, d)
Get(t, k, d) == IF k \in DOMAIN t THEN t[k] ELSE d

(***************************************************************************)
(* determine_shift                                                         *)
(***************************************************************************)
\* RightMatch, accepting a shift only where all of seq lies inside comp
RightMatch_contained(s, comp, shift) ==
    /\ shift + Len(s) <= Len(comp)
    /\ s = Slice(comp, shift, shift + Len(s))

\* the test of the first loop at one shift
RightMatch(s, comp, shift) ==
    LET overlap_len == Min2(Len(s), Len(comp) - shift)
    IN  /\ overlap_len > 0
        /\ Slice(s, 0, overlap_len) = Slice(comp, shift, shift + overlap_len)

\* the test of the second loop at one shift
LeftMatch(s, comp, shift) ==
    LET overlap_len == Min2(Len(comp), Len(s) - shift)
    IN  /\ overlap_len > 0
        /\ Slice(s, shift, shift + overlap_len) = Slice(comp, 0, overlap_len)

\* determine_shift with the two loops in the other order
determine_shift_leftfirst(s0, c0) ==
    LET s == Upper(s0)
        c_seq_comp == Complement(Upper(c0))
        right == {sh \in 0..(Max2(Len(c_seq_comp), Len(s)) - 1) :
                     RightMatch(s, c_seq_comp, sh)}
        left == {sh \in 1..(Len(s) - 1) : LeftMatch(s, c_seq_comp, sh)}
    IN  IF left # {} THEN Ok(<<0 - MinOf(left)>>)
        ELSE IF right # {} THEN Ok(<<MinOf(right)>>)
        ELSE Raise(ErrNoAlign, "")

\* determine_shift keeping the last matching shift of a loop, not the first
determine_shift_lastmatch(s0, c0) ==
    LET s == Upper(s0)
        c_seq_comp == Complement(Upper(c0))
        right == {sh \in 0..(Max2(Len(c_seq_comp), Len(s)) - 1) :
                     RightMatch(s, c_seq_comp, sh)}
        left == {sh \in 1..(Len(s) - 1) : LeftMatch(s, c_seq_comp, sh)}
    IN  IF right # {} THEN Ok(<<0 - MinOf({0 - sh : sh \in right})>>)
        ELSE IF left # {} THEN Ok(<<MinOf({0 - sh : sh \in left})>>)
        ELSE Raise(ErrNoAlign, "")

determine_shift(s0, c0) ==
    LET s == Upper(s0)
        c_seq_comp == Complement(Upper(c0))
        right == {sh \in 0..(Max2(Len(c_seq_comp), Len(s)) - 1) :
                     RightMatch(s, c_seq_comp, sh)}
        left == {sh \in 1..(Len(s) - 1) : LeftMatch(s, c_seq_comp, sh)}
    IN  IF right # {} THEN Ok(<<MinOf(right)>>)
        ELSE IF left # {} THEN Ok(<<0 - MinOf(left)>>)
        ELSE Raise(ErrNoAlign, "")

(***************************************************************************)
(* Reference tables                                                        *)
(***************************************************************************)
\* SantaLucia et al. (1996), in tenths
DNA_NN5 ==
    ("init" :> <<0, 0>>) @@ ("init_A/T" :> <<0, 0>>) @@ ("init_G/C" :> <<0, 0>>) @@
    ("init_oneG/C" :> <<0, -59>>) @@ ("init_allA/T" :> <<0, -90>>) @@
    ("init_5T/A" :> <<4, 0>>) @@ ("sym" :> <<0, -14>>) @@
    ("AA/TT" :> <<-84, -236>>) @@ ("AT/TA" :> <<-65, -188>>) @@
    ("TA/AT" :> <<-63, -185>>) @@ ("CA/GT" :> <<-74, -193>>) @@
    ("GT/CA" :> <<-86, -230>>) @@ ("CT/GA" :> <<-61, -161>>) @@
    ("GA/CT" :> <<-77, -203>>) @@ ("CG/GC" :> <<-101, -255>>) @@
    ("GC/CG" :> <<-111, -284>>) @@ ("GG/CC" :> <<-67, -156>>)

\* a base table keyed in both orientations of a step, with different values
\* (as the RNA/DNA hybrid table R_DNA_NN1 is), every named term non-zero, and
\* no entry for the steps AG/TC, CT/GA, GA/CT, TC/AG, CC/GG, GG/CC
NN_HYB ==
    ("init" :> <<19, -39>>) @@ ("init_A/T" :> <<3, 5>>) @@ ("init_G/C" :> <<7, 11>>) @@
    ("init_oneG/C" :> <<13, 17>>) @@ ("init_allA/T" :> <<23, 29>>) @@
    ("init_5T/A" :> <<31, 37>>) @@ ("sym" :> <<41, 43>>) @@
    ("AA/TT" :> <<-78, -219>>) @@ ("TT/AA" :> <<-115, -364>>) @@
    ("AC/TG" :> <<-59, -123>>) @@ ("GT/CA" :> <<-78, -216>>) @@
    ("CA/GT" :> <<-90, -261>>) @@ ("TG/AC" :> <<-104, -284>>) @@
    ("AT/TA" :> <<-83, -239>>) @@ ("TA/AT" :> <<-78, -232>>) @@
    ("CG/GC" :> <<-163, -471>>) @@ ("GC/CG" :> <<-80, -171>>)

\* an internal-mismatch table: AG/TT and its reversal TT/GA both present,
\* TT/AA the reversal of a base-table key, AC/TG a base-table key itself
IMM_SYN ==
    ("AG/TT" :> <<10, 9>>) @@ ("TT/GA" :> <<-13, -53>>) @@
    ("TT/AA" :> <<2, 3>>) @@ ("AC/TG" :> <<47, 129>>) @@
    ("AT/TG" :> <<-25, -83>>) @@ ("CG/GT" :> <<-41, -117>>)

\* a terminal-mismatch table
TMM_SYN ==
    ("AA/TA" :> <<-31, -78>>) @@ ("AC/TT" :> <<-1, 20>>) @@
    ("CA/GG" :> <<-43, -107>>) @@ ("GC/AG" :> <<-26, -59>>)

\* dangling-end tables, keyed with "." at the unpaired position
DE_DNA_SYN ==
    (".A/TT" :> <<29, 104>>) @@ (".C/TG" :> <<-41, -130>>) @@
    ("AC/.G" :> <<-63, -171>>) @@ (".G/GC" :> <<-11, -16>>) @@
    ("AA/.T" :> <<2, 23>>) @@ (".T/AA" :> <<-5, -11>>) @@
    (".G/TC" :> <<-59, -165>>) @@ ("../TG" :> <<5, 6>>)

DE_RNA_SYN ==
    (".A/TT" :> <<-49, -132>>) @@ (".C/TG" :> <<-57, -161>>) @@
    ("AC/.G" :> <<-3, -10>>) @@ (".G/GC" :> <<-9, -13>>) @@
    ("AA/.T" :> <<-5, -6>>) @@ (".T/AA" :> <<-8, -21>>)

PairAdd(p, q) == <<p[1] + q[1], p[2] + q[2]>>

PairScale(p, n) == <<p[1] * n, p[2] * n>>

(***************************************************************************)
(* initialize_thermodynamics                                               *)
(***************************************************************************)
\* the symmetry test and term
SymTerm(nn_table, s, c) == IF s = Reverse(c) THEN nn_table["sym"] ELSE <<0, 0>>

initialize_thermodynamics(nn_table, s, c_opt) ==
    LET c == IF ~Truthy(c_opt) THEN Complement(s) ELSE c_opt.v
        gc == IF Count(s, "G") + Count(s, "C") = 0
              THEN nn_table["init_allA/T"] ELSE nn_table["init_oneG/C"]
        t5 == IF Len(s) > 0 /\ s[1] = "T" THEN nn_table["init_5T/A"] ELSE <<0, 0>>
        a3 == IF Len(s) > 0 /\ s[Len(s)] = "A" THEN nn_table["init_5T/A"] ELSE <<0, 0>>
        ends == <<s[1], s[Len(s)]>>
        AT == Count(ends, "A") + Count(ends, "T")
        GC == Count(ends, "G") + Count(ends, "C")
        term == PairAdd(PairScale(nn_table["init_A/T"], AT),
                        PairScale(nn_table["init_G/C"], GC))
    IN  IF Len(s) = 0 THEN Raise(ErrIndex, "")
        ELSE Ok(PairAdd(PairAdd(PairAdd(nn_table["init"], gc), PairAdd(t5, a3)),
                        PairAdd(term, SymTerm(nn_table, s, c))))

(***************************************************************************)
(* calculate_matching                                                      *)
(***************************************************************************)
\* seq[i:i+2] + '/' + c_seq[i:i+2], as characters
Neighbors(s, c, i) == Slice(s, i, i + 2) \o <<"/">> \o Slice(c, i, i + 2)

\* GetEither without the reversed lookup
GetEither_direct(t, n) == Get(t, Str(n), <<0, 0>>)

\* nn_table.get(neighbors, nn_table.get(neighbors[::-1], (0, 0)))
GetEither(t, n) == Get(t, Str(n), Get(t, Str(Reverse(n)), <<0, 0>>))

RECURSIVE matching_loop(_, _, _, _)
matching_loop(s, c, nn_table, i) ==
    IF i >= Len(s) - 1 THEN <<0, 0>>
    ELSE PairAdd(GetEither(nn_table, Neighbors(s, c, i)),
                 matching_loop(s, c, nn_table, i + 1))

\* calculate_matching handing c_seq on to initialize_thermodynamics
calculate_matching_cseq(s, c, nn_table) ==
    LET init == initialize_thermodynamics(nn_table, s, Some(c))
    IN  IF ~init.ok THEN init
        ELSE Ok(PairAdd(init.val, matching_loop(s, c, nn_table, 0)))

calculate_matching(s, c, nn_table) ==
    LET init == initialize_thermodynamics(nn_table, s, None)
    IN  IF ~init.ok THEN init
        ELSE Ok(PairAdd(init.val, matching_loop(s, c, nn_table, 0)))

(***************************************************************************)
(* calculate_internal_mismatch                                             *)
(***************************************************************************)
\* InternalLookup consulting the base table before the mismatch table
InternalLookup_basefirst(nn_table, imm_table, n) ==
    LET k == Str(n)
        r == Str(Reverse(n))
    IN  IF k \in DOMAIN nn_table THEN Ok(nn_table[k])
        ELSE IF r \in DOMAIN nn_table THEN Ok(nn_table[r])
        ELSE IF k \in DOMAIN imm_table THEN Ok(imm_table[k])
        ELSE IF r \in DOMAIN imm_table THEN Ok(imm_table[r])
        ELSE Raise(ErrNoData, k)

\* the four lookups of one step, in order
InternalLookup(nn_table, imm_table, n) ==
    LET k == Str(n)
        r == Str(Reverse(n))
    IN  IF k \in DOMAIN imm_table THEN Ok(imm_table[k])
        ELSE IF r \in DOMAIN imm_table THEN Ok(imm_table[r])
        ELSE IF k \in DOMAIN nn_table THEN Ok(nn_table[k])
        ELSE IF r \in DOMAIN nn_table THEN Ok(nn_table[r])
        ELSE Raise(ErrNoData, k)

RECURSIVE internal_loop(_, _, _, _, _, _)
internal_loop(s, c, nn_table, imm_table, i, acc) ==
    IF i >= Len(s) - 1 THEN Ok(acc)
    ELSE LET d == InternalLookup(nn_table, imm_table, Neighbors(s, c, i))
         IN  IF ~d.ok THEN d
             ELSE internal_loop(s, c, nn_table, imm_table, i + 1, PairAdd(acc, d.val))

calculate_internal_mismatch(s, c, nn_table, imm_table) ==
    LET init == initialize_thermodynamics(nn_table, s, None)
    IN  IF ~init.ok THEN init
        ELSE internal_loop(s, c, nn_table, imm_table, 0, init.val)

(***************************************************************************)
(* calculate_terminal_mismatch                                             *)
(***************************************************************************)
RECURSIVE terminal_loop(_, _, _, _)
terminal_loop(s, c, nn_table, i) ==
    IF i >= Len(s) - 1 THEN <<0, 0>>
    ELSE PairAdd(GetEither(nn_table, Neighbors(s, c, i)),
                 terminal_loop(s, c, nn_table, i + 1))

\* calculate_terminal_mismatch with the terminal corrections replacing the
\* stacking of the terminal positions
calculate_terminal_mismatch_inner(s, c, nn_table, tmm_table) ==
    LET init == initialize_thermodynamics(nn_table, s, None)
        term5 == Slice(s, 0, 2) \o <<"/">> \o Slice(c, 0, 2)
        term3 == Last2(s) \o <<"/">> \o Last2(c)
    IN  IF ~init.ok THEN init
        ELSE Ok(PairAdd(PairAdd(init.val,
                                PairAdd(GetEither(tmm_table, term5),
                                        GetEither(tmm_table, term3))),
                        terminal_loop(Slice(s, 1, Len(s) - 1), Slice(c, 1, Len(c) - 1),
                                      nn_table, 0)))

calculate_terminal_mismatch(s, c, nn_table, tmm_table) ==
    LET init == initialize_thermodynamics(nn_table, s, None)
        term5 == Slice(s, 0, 2) \o <<"/">> \o Slice(c, 0, 2)
        term3 == Last2(s) \o <<"/">> \o Last2(c)
    IN  IF ~init.ok THEN init
        ELSE Ok(PairAdd(PairAdd(init.val,
                                PairAdd(GetEither(tmm_table, term5),
                                        GetEither(tmm_table, term3))),
                        terminal_loop(s, c, nn_table, 0)))

(***************************************************************************)
(* calculate_dangling_end                                                  *)
(***************************************************************************)
\* Step 3: the two strands padded with "." according to the shift
Padded(s, c, shift) ==
    LET s1 == IF shift > 0 THEN Dots(shift) \o s ELSE s
        c1 == IF shift < 0 THEN Dots(0 - shift) \o c ELSE c
        s2 == IF Len(c1) > Len(s1) THEN s1 \o Dots(Len(c1) - Len(s1)) ELSE s1
        c2 == IF Len(s1) > Len(c1) THEN c1 \o Dots(Len(s1) - Len(c1)) ELSE c1
    IN  <<s2, c2>>

StartsWithDot(s) == Len(s) > 0 /\ s[1] = "."

EndsWithDot(s) == Len(s) > 0 /\ s[Len(s)] = "."

\* LeftEnd consuming the gap position only when the key is in the table
LeftEnd_iffound(ts, tc, de_table) ==
    LET left_de == Str(Slice(ts, 0, 2) \o <<"/">> \o Slice(tc, 0, 2))
    IN  IF (StartsWithDot(ts) \/ StartsWithDot(tc)) /\ left_de \in DOMAIN de_table
        THEN <<de_table[left_de], Tail(ts), Tail(tc)>>
        ELSE <<(<<0, 0>>), ts, tc>>

\* Step 4, 5' end: <<correction, tmp_seq, tmp_cseq>> after the left end
LeftEnd(ts, tc, de_table) ==
    IF StartsWithDot(ts) \/ StartsWithDot(tc)
    THEN LET left_de == Str(Slice(ts, 0, 2) \o <<"/">> \o Slice(tc, 0, 2))
         IN  <<Get(de_table, left_de, <<0, 0>>), Tail(ts), Tail(tc)>>
    ELSE <<(<<0, 0>>), ts, tc>>

\* RightEnd consuming the last position whether or not it carries a gap marker
RightEnd_always(ts, tc, de_table) ==
    LET right_de == Str(Reverse(Last2(tc)) \o <<"/">> \o Reverse(Last2(ts)))
    IN  <<Get(de_table, right_de, <<0, 0>>),
          Slice(ts, 0, Len(ts) - 1), Slice(tc, 0, Len(tc) - 1)>>

\* Step 4, 3' end: <<correction, tmp_seq, tmp_cseq>> after the right end
RightEnd(ts, tc, de_table) ==
    IF EndsWithDot(ts) \/ EndsWithDot(tc)
    THEN LET right_de == Str(Reverse(Last2(tc)) \o <<"/">> \o Reverse(Last2(ts)))
         IN  <<Get(de_table, right_de, <<0, 0>>),
               Slice(ts, 0, Len(ts) - 1), Slice(tc, 0, Len(tc) - 1)>>
    ELSE <<(<<0, 0>>), ts, tc>>

\* the aligned strands the stacking loop runs over
DanglingCore(s, c, shift, de_table) ==
    LET p == Padded(s, c, shift)
        l == LeftEnd(p[1], p[2], de_table)
        r == RightEnd(l[2], l[3], de_table)
    IN  [de |-> PairAdd(l[1], r[1]), tmp_seq |-> r[2], tmp_cseq |-> r[3]]

\* DanglingLookup ignoring the strict flag
DanglingLookup_lenient(nn_table, n, strict) ==
    LET k == Str(n)
        r == Str(Reverse(n))
    IN  IF k \in DOMAIN nn_table THEN Ok(nn_table[k])
        ELSE IF r \in DOMAIN nn_table THEN Ok(nn_table[r])
        ELSE Ok(<<0, 0>>)

\* one step of the stacking loop
DanglingLookup(nn_table, n, strict) ==
    LET k == Str(n)
        r == Str(Reverse(n))
    IN  IF k \in DOMAIN nn_table THEN Ok(nn_table[k])
        ELSE IF r \in DOMAIN nn_table THEN Ok(nn_table[r])
        ELSE IF strict THEN Raise(ErrMissing, k)
        ELSE Ok(<<0, 0>>)

RECURSIVE dangling_loop(_, _, _, _, _, _, _)
dangling_loop(ts, tc, nn_table, strict, length_matched, i, acc) ==
    IF i >= length_matched - 1 THEN Ok(acc)
    ELSE LET d == DanglingLookup(nn_table, Neighbors(ts, tc, i), strict)
         IN  IF ~d.ok THEN d
             ELSE dangling_loop(ts, tc, nn_table, strict, length_matched, i + 1,
                                PairAdd(acc, d.val))

calculate_dangling_end(s, c, nn_table, de_table, strict) ==
    LET init == initialize_thermodynamics(nn_table, s, None)
        shift == determine_shift(s, c)
        core == DanglingCore(s, c, shift.val[1], de_table)
    IN  IF ~init.ok THEN init
        ELSE IF ~shift.ok THEN shift
        ELSE dangling_loop(core.tmp_seq, core.tmp_cseq, nn_table, strict,
                           Min2(Len(core.tmp_seq), Len(core.tmp_cseq)), 0,
                           PairAdd(init.val, core.de))

(***************************************************************************)
(* calculate_duplex_thermodynamics                                         *)
(***************************************************************************)
CalcTypes ==
    {"Matching", "Internal Mismatch", "Terminal Mismatch",
     "Dangling-End DNA", "Dangling-End RNA"}

\* Normalized generating the reverse complement
Normalized_revcomp(a) ==
    LET s == Upper(a.seq)
    IN  IF a.calc_type = "Matching"
        THEN Ok(<<s, IF ~Truthy(a.c_seq) THEN Some(Reverse(Complement(s))) ELSE a.c_seq>>)
        ELSE IF ~Truthy(a.c_seq) THEN Raise(ErrNoCSeq, "")
        ELSE Ok(<<s, a.c_seq>>)

\* Normalized generating the complement in every mode
Normalized_anymode(a) ==
    LET s == Upper(a.seq)
    IN  Ok(<<s, IF ~Truthy(a.c_seq) THEN Some(Complement(s)) ELSE a.c_seq>>)

\* Normalized replacing U by T in both strands
Normalized_utot(a) ==
    LET T(x) == [i \in 1..Len(x) |-> IF x[i] = "U" THEN "T" ELSE x[i]]
        s == T(Upper(a.seq))
    IN  IF a.calc_type = "Matching"
        THEN Ok(<<s, IF ~Truthy(a.c_seq) THEN Some(Complement(s)) ELSE Some(T(a.c_seq.v))>>)
        ELSE IF ~Truthy(a.c_seq) THEN Raise(ErrNoCSeq, "")
        ELSE Ok(<<s, Some(T(a.c_seq.v))>>)

\* Normalized without seq.upper()
Normalized_noupper(a) ==
    LET s == a.seq
    IN  IF a.calc_type = "Matching"
        THEN Ok(<<s, IF ~Truthy(a.c_seq) THEN Some(Complement(s)) ELSE a.c_seq>>)
        ELSE IF ~Truthy(a.c_seq) THEN Raise(ErrNoCSeq, "")
        ELSE Ok(<<s, a.c_seq>>)

\* lines 466-472: the strands after normalisation, or the missing-complement error
Normalized(a) ==
    LET s == Upper(a.seq)
    IN  IF a.calc_type = "Matching"
        THEN Ok(<<s, IF ~Truthy(a.c_seq) THEN Some(Complement(s)) ELSE a.c_seq>>)
        ELSE IF ~Truthy(a.c_seq) THEN Raise(ErrNoCSeq, "")
        ELSE Ok(<<s, a.c_seq>>)

\* Dispatched without the tests that the mode's table is given
Dispatched_unchecked(a, s, c) ==
    IF a.calc_type = "Matching"
    THEN calculate_matching(s, c, a.nn_table.v)
    ELSE IF a.calc_type = "Internal Mismatch"
    THEN calculate_internal_mismatch(s, c, a.nn_table.v, a.imm_table.v)
    ELSE IF a.calc_type = "Terminal Mismatch"
    THEN calculate_terminal_mismatch(s, c, a.nn_table.v, a.tmm_table.v)
    ELSE IF a.calc_type = "Dangling-End DNA"
    THEN calculate_dangling_end(s, c, a.nn_table.v, a.de_dna_table.v, a.strict)
    ELSE IF a.calc_type = "Dangling-End RNA"
    THEN calculate_dangling_end(s, c, a.nn_table.v, a.de_rna_table.v, a.strict)
    ELSE Raise(ErrInvalid, "")

\* lines 474-485: the mode's (delta_h, delta_s), or the error raised
Dispatched(a, s, c) ==
    IF a.calc_type = "Matching"
    THEN calculate_matching(s, c, a.nn_table.v)
    ELSE IF a.calc_type = "Internal Mismatch" /\ Truthy(a.imm_table)
    THEN calculate_internal_mismatch(s, c, a.nn_table.v, a.imm_table.v)
    ELSE IF a.calc_type = "Terminal Mismatch" /\ Truthy(a.tmm_table)
    THEN calculate_terminal_mismatch(s, c, a.nn_table.v, a.tmm_table.v)
    ELSE IF a.calc_type = "Dangling-End DNA" /\ Truthy(a.de_dna_table)
    THEN calculate_dangling_end(s, c, a.nn_table.v, a.de_dna_table.v, a.strict)
    ELSE IF a.calc_type = "Dangling-End RNA" /\ Truthy(a.de_rna_table)
    THEN calculate_dangling_end(s, c, a.nn_table.v, a.de_rna_table.v, a.strict)
    ELSE Raise(ErrInvalid, "")

\* DeltaG without the division of delta_s by 1000
DeltaG_undivided(delta_h, delta_s, temperature) ==
    1000 * delta_h - 1000 * temperature * delta_s

\* line 487, in units of 1/10000 kcal/mol
DeltaG(delta_h, delta_s, temperature) == 1000 * delta_h - temperature * delta_s

\* the whole call, as a function of its arguments
calculate_duplex_thermodynamics(a) ==
    LET n == Normalized(a)
        d == Dispatched(a, n.val[1], n.val[2].v)
    IN  IF ~Truthy(a.nn_table) THEN Raise(ErrNoTable, "")
        ELSE IF ~n.ok THEN n
        ELSE IF ~d.ok THEN d
        ELSE Ok(<<d.val[1], d.val[2], DeltaG(d.val[1], d.val[2], a.temperature)>>)

(***************************************************************************)
(* get_user_sequences: one entry read at the prompts                       *)
(***************************************************************************)
\* str.strip(), for the blank " "
RECURSIVE LStrip(_)
LStrip(s) == IF s # <<>> /\ Head(s) = " " THEN LStrip(Tail(s)) ELSE s

Strip(s) == Reverse(LStrip(Reverse(LStrip(s))))

\* lines 584-596: the (seq, c_seq) appended for the two lines typed, or None
\* when the first is empty (the loop ends)
get_user_sequences(calc_type, seq_in, c_in) ==
    LET s == Upper(Strip(seq_in))
    IN  IF s = <<>> THEN None
        ELSE Some(<<s, IF calc_type = "Matching" THEN Complement(s)
                       ELSE Upper(Strip(c_in))>>)

(***************************************************************************)
(* Inputs                                                                  *)
(***************************************************************************)
RECURSIVE SeqsOfLen(_, _)
SeqsOfLen(A, n) ==
    IF n = 0 THEN {<<>>}
    ELSE {Append(s, a) : s \in SeqsOfLen(A, n - 1), a \in A}

\* the strings over A of length lo..hi
Strands(A, lo, hi) == UNION {SeqsOfLen(A, n) : n \in lo..hi}

Temperatures == {298, 310}

NoArgs ==
    [seq |-> <<>>, c_seq |-> None, temperature |-> 310, nn_table |-> None,
     imm_table |-> None, tmm_table |-> None, de_dna_table |-> None,
     de_rna_table |-> None, calc_type |-> "Matching", strict |-> TRUE]

\* the state at the call calculate_duplex_thermodynamics(**a)
Called(a) ==
    /\ args = a
    /\ pc = "entry"
    /\ seq = a.seq
    /\ c_seq = a.c_seq
    /\ delta = <<>>
    /\ ret = NoRet

(***************************************************************************)
(* calculate_duplex_thermodynamics, statement by statement                 *)
(***************************************************************************)
\* lines 463-464
CheckTable ==
    /\ pc = "entry"
    /\ IF ~Truthy(args.nn_table)
       THEN pc' = "raised" /\ ret' = Raise(ErrNoTable, "")
       ELSE pc' = "normalize" /\ ret' = ret
    /\ UNCHANGED <<args, seq, c_seq, delta>>

\* lines 466-472
Normalize ==
    /\ pc = "normalize"
    /\ LET n == Normalized(args)
       IN  IF n.ok
           THEN /\ seq' = n.val[1]
                /\ c_seq' = n.val[2]
                /\ pc' = "dispatch"
                /\ ret' = ret
           ELSE /\ seq' = Upper(seq)
                /\ c_seq' = c_seq
                /\ pc' = "raised"
                /\ ret' = n
    /\ UNCHANGED <<args, delta>>

\* lines 474-485
Dispatch ==
    /\ pc = "dispatch"
    /\ LET d == Dispatched(args, seq, c_seq.v)
       IN  IF d.ok
           THEN delta' = d.val /\ pc' = "derive" /\ ret' = ret
           ELSE delta' = delta /\ pc' = "raised" /\ ret' = d
    /\ UNCHANGED <<args, seq, c_seq>>

\* lines 487-488
Derive ==
    /\ pc = "derive"
    /\ ret' = Ok(<<delta[1], delta[2], DeltaG(delta[1], delta[2], args.temperature)>>)
    /\ pc' = "returned"
    /\ UNCHANGED <<args, seq, c_seq, delta>>

Next == CheckTable \/ Normalize \/ Dispatch \/ Derive

(***************************************************************************)
(* All modes, every combination of present and absent tables               *)
(***************************************************************************)
SeqBasesAll == {"A", "C"}

CSeqBasesAll == {"T", "G"}

OptTables(T) == {None, Some(<<>>), Some(T)}

\* the arguments that select calc_type t with correction table x
ModeArgs(a, t, x, b) ==
    CASE t = "Matching" -> a
      [] t = "Internal Mismatch" -> [a EXCEPT !.calc_type = t, !.imm_table = x]
      [] t = "Terminal Mismatch" -> [a EXCEPT !.calc_type = t, !.tmm_table = x]
      [] t = "Dangling-End DNA" ->
            [a EXCEPT !.calc_type = t, !.de_dna_table = x,
                      !.de_rna_table = Some(DE_RNA_SYN), !.strict = b]
      [] t = "Dangling-End RNA" ->
            [a EXCEPT !.calc_type = t, !.de_rna_table = x,
                      !.de_dna_table = Some(DE_DNA_SYN), !.strict = b]

\* the correction table of calc_type t, where it has one
ModeTable(t) ==
    CASE t = "Internal Mismatch" -> IMM_SYN
      [] t = "Terminal Mismatch" -> TMM_SYN
      [] t = "Dangling-End DNA" -> DE_DNA_SYN
      [] t = "Dangling-End RNA" -> DE_RNA_SYN
      [] OTHER -> <<>>

Init ==
    \E s \in Strands(SeqBasesAll, 1, MaxLenAll),
       c \in {None, Some(<<>>)} \cup {Some(x) : x \in Strands(CSeqBasesAll, 1, MaxLenAll)},
       n \in {None, Some(<<>>), Some(DNA_NN5), Some(NN_HYB)},
       T \in Temperatures,
       t \in CalcTypes :
       \E x \in IF t = "Matching" THEN {None} ELSE OptTables(ModeTable(t)),
          b \in IF t \in {"Dangling-End DNA", "Dangling-End RNA"} THEN BOOLEAN ELSE {TRUE} :
          Called(ModeArgs([NoArgs EXCEPT !.seq = s, !.c_seq = c, !.nn_table = n,
                                         !.temperature = T], t, x, b))

Spec == Init /\ [][Next]_vars

(***************************************************************************)
(* Matching mode                                                           *)
(***************************************************************************)
InitMatching ==
    \E s \in Strands(Bases, 1, MaxLen), n \in {DNA_NN5, NN_HYB} :
       \E c \in {None} \cup {Some(x) : x \in SeqsOfLen(Bases, Len(s))} :
          Called([NoArgs EXCEPT !.seq = s, !.c_seq = c, !.nn_table = Some(n)])

SpecMatching == InitMatching /\ [][Next]_vars

(***************************************************************************)
(* Internal Mismatch mode                                                  *)
(***************************************************************************)
\* the bases of the second strand: those of the keys of IMM_SYN
CSeqBasesInternal == {"A", "G", "T"}

InitInternal ==
    \E s \in Strands(Bases, 1, MaxLen), n \in {DNA_NN5, NN_HYB} :
       \E c \in SeqsOfLen(CSeqBasesInternal, Len(s)) :
          Called([NoArgs EXCEPT !.seq = s, !.c_seq = Some(c), !.nn_table = Some(n),
                                !.calc_type = "Internal Mismatch",
                                !.imm_table = Some(IMM_SYN)])

SpecInternal == InitInternal /\ [][Next]_vars

(***************************************************************************)
(* Terminal Mismatch mode                                                  *)
(***************************************************************************)
\* the bases of the two strands: those of the keys of TMM_SYN
SeqBasesTerminal == {"A", "C", "G"}

CSeqBasesTerminal == {"A", "G", "T"}

InitTerminal ==
    \E s \in Strands(SeqBasesTerminal, 1, MaxLen),
       c \in Strands(CSeqBasesTerminal, 1, MaxLen),
       n \in {DNA_NN5, NN_HYB} :
       Called([NoArgs EXCEPT !.seq = s, !.c_seq = Some(c), !.nn_table = Some(n),
                             !.calc_type = "Terminal Mismatch",
                             !.tmm_table = Some(TMM_SYN)])

SpecTerminal == InitTerminal /\ [][Next]_vars

(***************************************************************************)
(* Dangling-End modes                                                      *)
(***************************************************************************)
InitDangling ==
    \E s \in Strands(SeqBasesAll, 1, MaxDangleLen),
       c \in Strands(CSeqBasesAll, 1, MaxDangleLen),
       n \in {DNA_NN5, NN_HYB}, b \in BOOLEAN :
       Called([NoArgs EXCEPT !.seq = s, !.c_seq = Some(c), !.nn_table = Some(n),
                             !.calc_type = "Dangling-End DNA",
                             !.de_dna_table = Some(DE_DNA_SYN), !.strict = b])

SpecDangling == InitDangling /\ [][Next]_vars

(***************************************************************************)
(* Alignment: one call of determine_shift(seq, c_seq)                      *)
(***************************************************************************)
\* the pair named in the specification, beside the bounded ones
ShiftExamples == {<< <<"A", "T", "C", "G">>, <<"T", "A", "G", "C">> >>}

InitShift ==
    /\ \E p \in (Strands(Bases, 1, MaxShiftLen) \X Strands(Bases, 1, MaxShiftLen))
                   \cup ShiftExamples :
          args = [NoArgs EXCEPT !.seq = p[1], !.c_seq = Some(p[2])]
    /\ pc = "determine_shift"
    /\ seq = args.seq
    /\ c_seq = args.c_seq
    /\ delta = <<>>
    /\ ret = NoRet

CallDetermineShift ==
    /\ pc = "determine_shift"
    /\ ret' = determine_shift(seq, c_seq.v)
    /\ pc' = IF ret'.ok THEN "returned" ELSE "raised"
    /\ UNCHANGED <<args, seq, c_seq, delta>>

NextShift == CallDetermineShift

SpecShift == InitShift /\ [][NextShift]_vars

(***************************************************************************)
(* Letter case: every mode, strands in upper, lower and mixed case         *)
(***************************************************************************)
SeqBasesCase == {"A", "a", "C", "c"}

CSeqBasesCase == {"T", "t", "G", "g"}

InitCase ==
    \E s \in Strands(SeqBasesCase, 1, MaxCaseLen),
       c \in {None} \cup {Some(x) : x \in Strands(CSeqBasesCase, 1, MaxCaseLen)},
       t \in CalcTypes :
       \E b \in IF t \in {"Dangling-End DNA", "Dangling-End RNA"} THEN BOOLEAN ELSE {TRUE} :
          Called(ModeArgs([NoArgs EXCEPT !.seq = s, !.c_seq = c,
                                         !.nn_table = Some(DNA_NN5)],
                          t, Some(ModeTable(t)), b))

SpecCase == InitCase /\ [][Next]_vars

(***************************************************************************)
(* RNA letters: every mode, strands that may contain U                     *)
(***************************************************************************)
BasesRNA == {"A", "T", "U"}

InitRNA ==
    \E s \in Strands(BasesRNA, 1, MaxCaseLen),
       c \in {None} \cup {Some(x) : x \in Strands(BasesRNA, 1, MaxCaseLen)},
       t \in CalcTypes :
       \E b \in IF t \in {"Dangling-End DNA", "Dangling-End RNA"} THEN BOOLEAN ELSE {TRUE} :
          Called(ModeArgs([NoArgs EXCEPT !.seq = s, !.c_seq = c,
                                         !.nn_table = Some(DNA_NN5)],
                          t, Some(ModeTable(t)), b))

SpecRNA == InitRNA /\ [][Next]_vars

(***************************************************************************)
(* Properties                                                              *)
(***************************************************************************)
Finished == pc \in {"returned", "raised"}

\* the correction table argument the selected mode reads
ModeTableArg(a) ==
    CASE a.calc_type = "Internal Mismatch" -> a.imm_table
      [] a.calc_type = "Terminal Mismatch" -> a.tmm_table
      [] a.calc_type = "Dangling-End DNA" -> a.de_dna_table
      [] a.calc_type = "Dangling-End RNA" -> a.de_rna_table
      [] OTHER -> None

\* a occurs in b at the 0-based offset k
OccursAt(a, b, k) == k + Len(a) <= Len(b) /\ SubSeq(b, k + 1, k + Len(a)) = a

Substring(a, b) == \E k \in 0..Len(b) : OccursAt(a, b, k)

\* C1: whenever the call returns a triple, in any mode, its third component
\* is dH - T * (dS / 1000) of its first two (here 1000 * dH - T * dS, in
\* 1/10000 kcal/mol), and the first two are the mode's (delta_h, delta_s).
C1_DeltaG ==
    pc = "returned" =>
        /\ ret.ok
        /\ Len(ret.val) = 3
        /\ <<ret.val[1], ret.val[2]>> = delta
        /\ ret.val[3] = 1000 * ret.val[1] - args.temperature * ret.val[2]

C1_Witness ==
    /\ pc = "returned"
    /\ args.calc_type = "Dangling-End RNA"
    /\ ret.val[1] # 0
    /\ ret.val[2] # 0
    /\ ret.val[3] # 1000 * ret.val[1]

\* C2: a Matching call given c_seq = complement(seq) ends as the same call
\* given no c_seq does (same triple).
C2_AutoComplement ==
    (Finished /\ args.calc_type = "Matching" /\ Len(args.seq) > 0
        /\ args.c_seq = Some(Complement(args.seq)))
    => /\ pc = "returned"
       /\ ret = calculate_duplex_thermodynamics([args EXCEPT !.c_seq = None])

C2_Witness ==
    /\ pc = "returned"
    /\ args.calc_type = "Matching"
    /\ Len(args.seq) = 3
    /\ args.c_seq = Some(Complement(args.seq))
    /\ args.seq # Reverse(args.seq)
    /\ ret.val[1] < 0

\* seq and comp agree on a non-empty overlap when comp[i + k] faces seq[i]
Registers(s, comp, k) ==
    /\ \E i \in 1..Len(s) : i + k \in 1..Len(comp)
    /\ \A i \in 1..Len(s) : i + k \in 1..Len(comp) => s[i] = comp[i + k]

\* C3 as stated: determine_shift fails whenever neither of seq and
\* comp = complement(c_seq) is a contiguous substring of the other.
C3_FailsWithoutSubstring ==
    LET comp == Complement(args.c_seq.v)
    IN  (Finished /\ ~Substring(args.seq, comp) /\ ~Substring(comp, args.seq))
        => (pc = "raised" /\ ret = Raise(ErrNoAlign, ""))

\* C3, amended: determine_shift fails with the alignment error exactly when
\* seq and comp agree on no non-empty overlap at any offset; in every other
\* case (a partial overlap at the strand ends included) it returns a shift at
\* which they do agree.
C3_FailsIffNoOverlap ==
    LET comp == Complement(args.c_seq.v)
        offsets == (1 - Len(args.seq))..(Len(comp) - 1)
    IN  Finished =>
          IF \E k \in offsets : Registers(args.seq, comp, k)
          THEN /\ pc = "returned"
               /\ ret.val[1] \in offsets
               /\ Registers(args.seq, comp, ret.val[1])
          ELSE pc = "raised" /\ ret = Raise(ErrNoAlign, "")

C3_Witness ==
    /\ pc = "raised"
    /\ ret = Raise(ErrNoAlign, "")
    /\ Len(args.seq) = 3
    /\ Len(args.c_seq.v) = 3

\* C4: if seq occurs in comp = complement(c_seq) at exactly one offset k,
\* determine_shift returns k (0 when seq = comp).
C4_UniqueOffset ==
    LET comp == Complement(args.c_seq.v)
        occ == {k \in 0..Len(comp) : OccursAt(args.seq, comp, k)}
    IN  (Finished /\ Cardinality(occ) = 1)
        => (pc = "returned" /\ \A k \in occ : ret = Ok(<<k>>))

C4_Witness ==
    LET comp == Complement(args.c_seq.v)
        occ == {k \in 0..Len(comp) : OccursAt(args.seq, comp, k)}
    IN  /\ pc = "returned"
        /\ Len(args.seq) = 2
        /\ occ = {1}
        /\ args.seq[2] = comp[1]
        /\ ret = Ok(<<1>>)

\* C5: a Matching evaluation of seq adds the table's "sym" term once when
\* seq = reverse(complement(seq)) and not at all otherwise: the result is the
\* result under the same table with "sym" zeroed, plus that many "sym".
C5_SymOnce ==
    (pc = "returned" /\ args.calc_type = "Matching") =>
        LET nn == args.nn_table.v
            base == calculate_duplex_thermodynamics(
                        [args EXCEPT !.nn_table = Some([nn EXCEPT !["sym"] = <<0, 0>>])])
            times == IF args.seq = Reverse(Complement(args.seq)) THEN 1 ELSE 0
        IN  /\ nn["sym"] # <<0, 0>>
            /\ base.ok
            /\ ret.val[1] = base.val[1] + times * nn["sym"][1]
            /\ ret.val[2] = base.val[2] + times * nn["sym"][2]

C5_Witness ==
    /\ pc = "returned"
    /\ args.calc_type = "Matching"
    /\ args.seq = Reverse(Complement(args.seq))
    /\ args.c_seq.some
    /\ args.c_seq.v # Complement(args.seq)

RECURSIVE SumPairs(_)
SumPairs(q) == IF q = <<>> THEN <<0, 0>> ELSE PairAdd(Head(q), SumPairs(Tail(q)))

PairSub(p, q) == <<p[1] - q[1], p[2] - q[2]>>

\* the stacking keys of the strands s and c, position by position
StepKeys(s, c, n) == [i \in 1..(n - 1) |-> Neighbors(s, c, i - 1)]

\* the four lookups of an Internal Mismatch step, as <<table, key>> in order
C6_Lookups(n) ==
    << <<args.imm_table.v, Str(n)>>, <<args.imm_table.v, Str(Reverse(n))>>,
       <<args.nn_table.v, Str(n)>>, <<args.nn_table.v, Str(Reverse(n))>> >>

C6_Hits(n) == {j \in 1..4 : C6_Lookups(n)[j][2] \in DOMAIN C6_Lookups(n)[j][1]}

C6_FirstHit(n) ==
    LET j == MinOf(C6_Hits(n)) IN C6_Lookups(n)[j][1][C6_Lookups(n)[j][2]]

C6_Keys == StepKeys(args.seq, args.c_seq.v, Len(args.seq))

C6_Missing == {i \in DOMAIN C6_Keys : C6_Hits(C6_Keys[i]) = {}}

\* C6: an Internal Mismatch evaluation takes each step from the first hit
\* among mismatch[k], mismatch[reverse k], base[k], base[reverse k]; when some
\* step hits none of the four, it fails with the error naming the first such
\* key and returns nothing.
C6_InternalLookupOrder ==
    (Finished /\ args.calc_type = "Internal Mismatch") =>
        IF C6_Missing = {}
        THEN /\ pc = "returned"
             /\ <<ret.val[1], ret.val[2]>> =
                   PairAdd(initialize_thermodynamics(args.nn_table.v, args.seq, None).val,
                           SumPairs([i \in DOMAIN C6_Keys |-> C6_FirstHit(C6_Keys[i])]))
        ELSE /\ pc = "raised"
             /\ ret = Raise(ErrNoData, Str(C6_Keys[MinOf(C6_Missing)]))
             /\ delta = <<>>

C6_Witness ==
    /\ pc = "raised"
    /\ args.calc_type = "Internal Mismatch"
    /\ ret.err = ErrNoData
    /\ C6_Missing = {2}
    /\ C6_Hits(C6_Keys[1]) = {2, 3}
    /\ ret.key = Str(C6_Keys[2])

\* the stacking keys of a Dangling-End evaluation, and those among them that
\* the base table holds in neither orientation
C7_Keys ==
    LET sh == determine_shift(args.seq, args.c_seq.v)
        core == DanglingCore(args.seq, args.c_seq.v, sh.val[1], args.de_dna_table.v)
    IN  StepKeys(core.tmp_seq, core.tmp_cseq,
                 Min2(Len(core.tmp_seq), Len(core.tmp_cseq)))

C7_Unresolved ==
    {i \in DOMAIN C7_Keys :
        /\ Str(C7_Keys[i]) \notin DOMAIN args.nn_table.v
        /\ Str(Reverse(C7_Keys[i])) \notin DOMAIN args.nn_table.v}

\* C7: in Dangling-End mode, when the strands align and some stacking key is
\* in the base table in neither orientation, the strict call fails with the
\* error naming the (first such) key, and the lenient call returns what the
\* strict call returns under the base table completed with (0, 0) for the
\* unresolved keys.
C7_StrictOrZero ==
    (/\ Finished
     /\ args.calc_type = "Dangling-End DNA"
     /\ determine_shift(args.seq, args.c_seq.v).ok
     /\ C7_Unresolved # {})
    => IF args.strict
       THEN /\ pc = "raised"
            /\ ret = Raise(ErrMissing, Str(C7_Keys[MinOf(C7_Unresolved)]))
       ELSE /\ pc = "returned"
            /\ ret = calculate_duplex_thermodynamics(
                        [args EXCEPT
                            !.strict = TRUE,
                            !.nn_table = Some([k \in {Str(C7_Keys[i]) : i \in C7_Unresolved}
                                                  |-> <<0, 0>>] @@ args.nn_table.v)])

C7_Witness ==
    /\ pc = "returned"
    /\ args.calc_type = "Dangling-End DNA"
    /\ ~args.strict
    /\ determine_shift(args.seq, args.c_seq.v).ok
    /\ determine_shift(args.seq, args.c_seq.v).val[1] # 0
    /\ C7_Unresolved # {}
    /\ C7_Unresolved # DOMAIN C7_Keys
    /\ delta[1] # 0

\* the stacking sum of calculate_matching: its result less the initiation seed
C8_Stacking(s, c) ==
    PairSub(calculate_matching(s, c, args.nn_table.v).val,
            initialize_thermodynamics(args.nn_table.v, s, None).val)

\* the table gives the key n one value, in whichever orientations it holds it
C8_OneValue(n) ==
    LET nn == args.nn_table.v
    IN  (Str(n) \in DOMAIN nn /\ Str(Reverse(n)) \in DOMAIN nn)
            => nn[Str(n)] = nn[Str(Reverse(n))]

\* C8 as stated: for equal-length strands the stacking sum of (seq, c_seq)
\* equals that of (reverse(c_seq), reverse(seq)), for any base table.
C8_ReversalInvariant ==
    (pc = "returned" /\ args.calc_type = "Matching" /\ args.c_seq.some
        /\ Len(args.c_seq.v) = Len(args.seq))
    => PairSub(delta, initialize_thermodynamics(args.nn_table.v, args.seq, None).val)
          = C8_Stacking(Reverse(args.c_seq.v), Reverse(args.seq))

\* C8, amended: the same, provided the table gives every stacking key of the
\* pair the same value in both orientations where it holds both.
C8_ReversalInvariantOneValued ==
    (/\ pc = "returned" /\ args.calc_type = "Matching" /\ args.c_seq.some
     /\ Len(args.c_seq.v) = Len(args.seq)
     /\ \A i \in 1..(Len(args.seq) - 1) :
           C8_OneValue(StepKeys(args.seq, args.c_seq.v, Len(args.seq))[i]))
    => PairSub(delta, initialize_thermodynamics(args.nn_table.v, args.seq, None).val)
          = C8_Stacking(Reverse(args.c_seq.v), Reverse(args.seq))

C8_Witness ==
    /\ pc = "returned"
    /\ args.calc_type = "Matching"
    /\ args.c_seq.some
    /\ Len(args.seq) = 3
    /\ args.seq # Reverse(args.c_seq.v)
    /\ \A i \in 1..2 :
          LET n == StepKeys(args.seq, args.c_seq.v, 3)[i]
          IN  /\ Str(n) \notin DOMAIN args.nn_table.v
              /\ Str(Reverse(n)) \in DOMAIN args.nn_table.v
    /\ C8_Stacking(args.seq, args.c_seq.v) # <<0, 0>>

\* C9 as stated: the call fails with a configuration error, nothing computed,
\* whenever the base table is absent or empty or the selected non-Matching
\* mode's correction table is absent.
C9_ConfigError ==
    (/\ Finished
     /\ \/ ~Truthy(args.nn_table)
        \/ args.calc_type # "Matching" /\ ~ModeTableArg(args).some)
    => /\ pc = "raised"
       /\ ret.err \in {ErrNoTable, ErrInvalid}
       /\ delta = <<>>

\* C9, amended: the call fails with a configuration error, nothing computed
\* and nothing returned, whenever the base table is absent or empty, or a
\* non-empty c_seq is supplied and the selected non-Matching mode's
\* correction table is absent (or empty).
C9_ConfigErrorGivenCSeq ==
    (/\ Finished
     /\ \/ ~Truthy(args.nn_table)
        \/ /\ args.calc_type # "Matching"
           /\ Truthy(args.c_seq)
           /\ ~Truthy(ModeTableArg(args)))
    => /\ pc = "raised"
       /\ ret = Raise(IF ~Truthy(args.nn_table) THEN ErrNoTable ELSE ErrInvalid, "")
       /\ delta = <<>>

C9_Witness ==
    /\ pc = "raised"
    /\ ret = Raise(ErrInvalid, "")
    /\ args.calc_type = "Internal Mismatch"
    /\ args.imm_table = None
    /\ args.nn_table = Some(DNA_NN5)
    /\ Len(args.c_seq.v) = Len(args.seq)

\* C10 as stated: in every mode other than Matching, a call with no (or an
\* empty) c_seq fails with the missing-complement error; no complement is
\* generated and no mode calculation is run.
C10_MissingComplement ==
    (Finished /\ args.calc_type # "Matching" /\ ~Truthy(args.c_seq))
    => /\ pc = "raised"
       /\ ret = Raise(ErrNoCSeq, "")
       /\ c_seq = args.c_seq
       /\ delta = <<>>

\* C10, amended: the same, for calls whose base table is present and
\* non-empty.
C10_MissingComplementGivenTable ==
    (Finished /\ args.calc_type # "Matching" /\ ~Truthy(args.c_seq)
        /\ Truthy(args.nn_table))
    => /\ pc = "raised"
       /\ ret = Raise(ErrNoCSeq, "")
       /\ c_seq = args.c_seq
       /\ delta = <<>>

C10_Witness ==
    /\ pc = "raised"
    /\ ret = Raise(ErrNoCSeq, "")
    /\ args.calc_type = "Terminal Mismatch"
    /\ args.c_seq = Some(<<>>)
    /\ Truthy(args.tmm_table)


C11_Typed(seq_in, c_in) ==
    LET u == get_user_sequences(args.calc_type, seq_in, c_in)
    IN  calculate_duplex_thermodynamics(
            [args EXCEPT !.seq = u.v[1], !.c_seq = Some(u.v[2])])

UtoT(x) == [i \in 1..Len(x) |-> IF x[i] = "U" THEN "T" ELSE x[i]]

HasU(x) == \E i \in 1..Len(x) : x[i] = "U"

\* C12 as stated: the call on strands containing U ends as the call on the
\* strands with every U replaced by T does.
C12_UTreatedAsT ==
    Finished =>
        ret = calculate_duplex_thermodynamics(
                 [args EXCEPT !.seq = UtoT(args.seq),
                              !.c_seq = IF args.c_seq.some
                                        THEN Some(UtoT(args.c_seq.v)) ELSE None])

\* C12, amended: the engine replaces no U.  In Matching mode the stacking
\* keys are formed from the strands as given, a key containing U exactly
\* where a strand has U; under a table keyed on DNA letters such a step
\* contributes (0, 0), so the result is the initiation seed of seq plus the
\* table values of the steps free of U.
C12_UKeptAsGiven ==
    (pc = "returned" /\ args.calc_type = "Matching") =>
        LET s == Upper(args.seq)
            c == IF Truthy(args.c_seq) THEN args.c_seq.v ELSE Complement(s)
            keys == StepKeys(s, c, Len(s))
            nn == args.nn_table.v
        IN  delta = PairAdd(
                        initialize_thermodynamics(nn, s, None).val,
                        SumPairs([i \in DOMAIN keys |->
                                     IF HasU(keys[i]) THEN <<0, 0>>
                                     ELSE GetEither(nn, keys[i])]))

C12_Witness ==
    /\ pc = "returned"
    /\ args.calc_type = "Matching"
    /\ args.seq = <<"A", "U">>
    /\ args.c_seq = Some(<<"T", "A">>)
    /\ ret # calculate_duplex_thermodynamics([args EXCEPT !.seq = <<"A", "T">>])

\* the terminal-mismatch entry of the key k: direct, then reversed, else (0, 0)
C13_Entry(k) ==
    LET tmm == args.tmm_table.v
    IN  IF Str(k) \in DOMAIN tmm THEN tmm[Str(k)]
        ELSE IF Str(Reverse(k)) \in DOMAIN tmm THEN tmm[Str(Reverse(k))]
        ELSE <<0, 0>>

C13_Term5 == Slice(seq, 0, 2) \o <<"/">> \o Slice(c_seq.v, 0, 2)

C13_Term3 ==
    SubSeq(seq, Max2(Len(seq) - 1, 1), Len(seq)) \o <<"/">>
        \o SubSeq(c_seq.v, Max2(Len(c_seq.v) - 1, 1), Len(c_seq.v))

NoGap(x) == \A i \in 1..Len(x) : x[i] # "."

\* C14: in Dangling-End mode, whenever determine_shift succeeds, the two
\* strings the stacking loop runs over (after the padding and the consumption
\* of one position at each end that carries a gap marker) have equal length
\* and hold no gap marker.
C14_GapFreeCore ==
    (Finished /\ args.calc_type = "Dangling-End DNA"
        /\ determine_shift(seq, c_seq.v).ok)
    => LET core == DanglingCore(seq, c_seq.v, determine_shift(seq, c_seq.v).val[1],
                                args.de_dna_table.v)
       IN  /\ Len(core.tmp_seq) = Len(core.tmp_cseq)
           /\ NoGap(core.tmp_seq)
           /\ NoGap(core.tmp_cseq)

\* the outcome of a stacking loop bounded by the shorter strand
C15_Bounded(a) ==
    LET s == Upper(a.seq)
        c == a.c_seq.v
        n == Min2(Len(s), Len(c))
        nn == a.nn_table.v
        init == initialize_thermodynamics(nn, s, None)
        d == IF a.calc_type = "Matching"
             THEN Ok(PairAdd(init.val, matching_loop(Slice(s, 0, n), Slice(c, 0, n), nn, 0)))
             ELSE IF a.calc_type = "Internal Mismatch"
             THEN internal_loop(Slice(s, 0, n), Slice(c, 0, n), nn, a.imm_table.v, 0, init.val)
             ELSE Ok(PairAdd(PairAdd(init.val,
                                     PairAdd(GetEither(a.tmm_table.v,
                                                       Slice(s, 0, 2) \o <<"/">> \o Slice(c, 0, 2)),
                                             GetEither(a.tmm_table.v,
                                                       Last2(s) \o <<"/">> \o Last2(c)))),
                             terminal_loop(Slice(s, 0, n), Slice(c, 0, n), nn, 0)))
    IN  IF ~d.ok THEN d
        ELSE Ok(<<d.val[1], d.val[2], DeltaG(d.val[1], d.val[2], a.temperature)>>)

\* C15: in Matching, Internal Mismatch and Terminal Mismatch modes the call
\* ends as a stacking loop over i = 0 .. min(len(seq), len(c_seq)) - 2 ends:
\* a c_seq shorter than seq brings no failure, and a key named by a failure
\* has two bases on each side of the "/".
C15_BoundedByShorter ==
    (/\ Finished
     /\ args.calc_type \in {"Matching", "Internal Mismatch", "Terminal Mismatch"}
     /\ Truthy(args.nn_table)
     /\ Truthy(args.c_seq)
     /\ args.calc_type # "Matching" => Truthy(ModeTableArg(args)))
    => /\ ret = C15_Bounded(args)
       /\ ret.err = ErrNoData => Len(ret.key) = 5

\* the test on a non-negative shift k: seq's prefix against comp from k on
C16_Right(s, comp, k) ==
    LET L == Min2(Len(s), Len(comp) - k)
    IN  L > 0 /\ SubSeq(s, 1, L) = SubSeq(comp, k + 1, k + L)

\* the test on a negative shift -k: seq from k on against comp's prefix
C16_Left(s, comp, k) ==
    LET L == Min2(Len(comp), Len(s) - k)
    IN  L > 0 /\ SubSeq(s, k + 1, k + L) = SubSeq(comp, 1, L)

\* C16: a returned shift r >= 0 passes the test on non-negative shifts and
\* no smaller non-negative shift does; a returned shift r < 0 has
\* 1 <= -r <= len(seq) - 1, no non-negative shift passes, -r passes the test
\* on negative shifts and no smaller positive shift does.
C16_FirstMatchWins ==
    pc = "returned" =>
        LET s == Upper(seq)
            comp == Complement(Upper(c_seq.v))
            r == ret.val[1]
        IN  IF r >= 0
            THEN /\ C16_Right(s, comp, r)
                 /\ \A k \in 0..(r - 1) : ~C16_Right(s, comp, k)
            ELSE /\ (0 - r) \in 1..(Len(s) - 1)
                 /\ \A k \in 0..(Len(comp) - 1) : ~C16_Right(s, comp, k)
                 /\ C16_Left(s, comp, 0 - r)
                 /\ \A k \in 1..((0 - r) - 1) : ~C16_Left(s, comp, k)

C16_Witness ==
    /\ pc = "returned"
    /\ ret = Ok(<<0 - 1>>)
    /\ Len(seq) = 3
    /\ Len(c_seq.v) = 3
    /\ C16_Left(seq, Complement(c_seq.v), 2)

\* C17: in Terminal Mismatch mode the symmetry term is added exactly when
\* seq equals the reverse of the c_seq supplied: the result is the result
\* under the same table with "sym" zeroed, plus "sym" in that case only.
C17_SymFromSuppliedCSeq ==
    (pc = "returned" /\ args.calc_type = "Terminal Mismatch") =>
        LET nn == args.nn_table.v
            base == calculate_duplex_thermodynamics(
                        [args EXCEPT !.nn_table = Some([nn EXCEPT !["sym"] = <<0, 0>>])])
            sym == IF seq = Reverse(c_seq.v) THEN nn["sym"] ELSE <<0, 0>>
        IN  delta = PairAdd(<<base.val[1], base.val[2]>>, sym)

\* the dangling-end keys a Dangling-End evaluation forms (none, one or two)
C18_Keys ==
    LET p == Padded(seq, c_seq.v, determine_shift(seq, c_seq.v).val[1])
        l == LeftEnd(p[1], p[2], args.de_dna_table.v)
    IN  (IF StartsWithDot(p[1]) \/ StartsWithDot(p[2])
         THEN {Str(Slice(p[1], 0, 2) \o <<"/">> \o Slice(p[2], 0, 2))} ELSE {})
        \cup
        (IF EndsWithDot(l[2]) \/ EndsWithDot(l[3])
         THEN {Str(Reverse(Last2(l[3])) \o <<"/">> \o Reverse(Last2(l[2])))} ELSE {})

C18_Absent == C18_Keys \ DOMAIN args.de_dna_table.v

\* C18: in Dangling-End mode a dangling-end key absent from the dangling-end
\* table counts as (0, 0), strict or not: the call ends as it does under the
\* table completed with (0, 0) for the absent keys, and the only failure of
\* an aligned pair is the strict failure of a stacking lookup.
C18_AbsentDanglingKey ==
    (Finished /\ args.calc_type = "Dangling-End DNA"
        /\ determine_shift(seq, c_seq.v).ok)
    => /\ ret = calculate_duplex_thermodynamics(
                    [args EXCEPT !.de_dna_table =
                        Some([k \in C18_Absent |-> <<0, 0>>] @@ args.de_dna_table.v)])
       /\ ~ret.ok => (args.strict /\ ret.err = ErrMissing)

C18_Witness ==
    /\ pc = "returned"
    /\ args.calc_type = "Dangling-End DNA"
    /\ args.strict
    /\ determine_shift(seq, c_seq.v).ok
    /\ determine_shift(seq, c_seq.v).val[1] # 0
    /\ C18_Absent # {}
    /\ Len(seq) >= 3

\* C19: for c_seq = complement(seq), a lenient Dangling-End call resolves
\* shift 0 and returns the triple the Matching call returns for the same
\* seq, c_seq, base table and temperature, whatever the dangling-end table.
C19_DanglingIsMatching ==
    (Finished /\ args.calc_type = "Dangling-End DNA" /\ ~args.strict
        /\ c_seq.v = Complement(seq))
    => /\ pc = "returned"
       /\ determine_shift(seq, c_seq.v) = Ok(<<0>>)
       /\ ret = calculate_duplex_thermodynamics([args EXCEPT !.calc_type = "Matching"])
       /\ ret = calculate_duplex_thermodynamics(
                    [args EXCEPT !.de_dna_table = Some(DE_RNA_SYN)])

C19_Witness ==
    /\ pc = "returned"
    /\ args.calc_type = "Dangling-End DNA"
    /\ ~args.strict
    /\ c_seq.v = Complement(seq)
    /\ Len(seq) = 4
    /\ seq[1] # seq[2]
    /\ ret.val[1] < 0

=============================================================================
